---- MODULE Spec2Model ----
(***************************************************************************)
(* A model of the browser front-end helpers of Prose Engine                *)
(* (src/app/static/js/app.js): the api() request helper, the modal, the    *)
(* toasts, the loading overlay and the theme toggle.                       *)
(*                                                                         *)
(* JavaScript values are tagged records, so that values of different       *)
(* types can be compared; JSON text is a string, and JSON.parse /          *)
(* JSON.stringify are tables over the texts the model uses.                *)
(***************************************************************************)
EXTENDS Integers, Sequences, FiniteSets, TLC

VARIABLES
    calls,          \* call slot -> the state of one invocation of api()
    modalHidden,    \* #modal-overlay carries the class `hidden`
    modalTitle,     \* #modal-title textContent
    modalBody,      \* #modal-body innerHTML
    modalFooter,    \* #modal-footer innerHTML
    lastModal,      \* history: the last modal operation and its arguments
    prevModal,      \* history: the modal operation before the last
    lastEvent,      \* history: the last modal call or document event
    loadingHidden,  \* #loading-overlay carries the class `hidden`
    loadingMessage, \* #loading-message textContent
    lastLoading,    \* history: the last showLoading / hideLoading call
    toasts,         \* children of #toast-container, in document order
    timers,         \* pending setTimeout callbacks, in firing order
    nextToast,      \* number of toasts created so far
    domReady,       \* DOMContentLoaded has been dispatched
    dataTheme,      \* data-theme attribute of the document element
    storedTheme,    \* localStorage item `theme`
    lastTheme,      \* history: the last startup, toggle click or reload
    callers,        \* call slot -> progress of the page code around the call
    carousel        \* the hero carousel of src/site/js/main.js

apiVars == <<calls>>
modalVars == <<modalHidden, modalTitle, modalBody, modalFooter>>
modalHist == <<lastModal, prevModal, lastEvent>>
loadingVars == <<loadingHidden, loadingMessage, lastLoading>>
toastVars == <<toasts, timers, nextToast>>
themeVars == <<domReady, dataTheme, storedTheme, lastTheme>>
uiVars == <<modalVars, loadingVars, toastVars, themeVars>>
\* state no operation of the helpers themselves touches
otherVars == <<callers, carousel>>
appVars == <<apiVars, modalVars, modalHist, loadingVars, toastVars, themeVars>>
vars == <<appVars, otherVars>>

(***************************************************************************)
(* Bounds of the model.                                                    *)
(***************************************************************************)
\* invocations of api() in the request-helper specification
NCalls == 2
\* invocations of api() in the page specification
NPageCalls == 1
\* toasts created over a run in the page specification
MaxPageToasts == 1
\* toasts created over a run
MaxToasts == 2

(***************************************************************************)
(* JavaScript values.                                                      *)
(***************************************************************************)
JUndef == [t |-> "undefined"]
JNull == [t |-> "null"]
JBool(b) == [t |-> "bool", b |-> b]
JNum(n) == [t |-> "num", n |-> n]
JStr(s) == [t |-> "str", s |-> s]
\* an object: f maps its own property names to values
JObj(f) == [t |-> "obj", f |-> f]
NoProps == << >>

\* ToBoolean: what `if (v)` and `v || w` test
Truthy(v) ==
    CASE v.t = "undefined" -> FALSE
      [] v.t = "null" -> FALSE
      [] v.t = "bool" -> v.b
      [] v.t = "num" -> v.n # 0
      [] v.t = "str" -> v.s # ""
      [] v.t = "obj" -> TRUE

\* a || b
Or(a, b) == IF Truthy(a) THEN a ELSE b

\* a default parameter value: used when the argument is undefined
Default(v, d) == IF v.t = "undefined" THEN d ELSE v

\* v.name throws a TypeError when v is null or undefined
PropThrows(v) == v.t \in {"undefined", "null"}

\* v.name, for a v on which the read does not throw
GetProp(v, name) ==
    IF v.t = "obj" /\ name \in DOMAIN v.f THEN v.f[name] ELSE JUndef

\* the decimal text of the numbers the model uses
NumText(n) ==
    CASE n = 0 -> "0"
      [] n = 1 -> "1"
      [] n = 7 -> "7"

\* ToString, as new Error(v) applies it to its message argument
JsToString(v) ==
    CASE v.t = "undefined" -> "undefined"
      [] v.t = "null" -> "null"
      [] v.t = "bool" -> IF v.b THEN "true" ELSE "false"
      [] v.t = "num" -> NumText(v.n)
      [] v.t = "str" -> v.s
      [] v.t = "obj" -> "[object Object]"

(***************************************************************************)
(* JSON.  JsonTable pairs each JSON text of the model with its value;      *)
(* every other text is not JSON.                                           *)
(***************************************************************************)
JsonTable ==
    << <<"null", JNull>>,
       <<"0", JNum(0)>>,
       <<"7", JNum(7)>>,
       <<"false", JBool(FALSE)>>,
       <<"\"\"", JStr("")>>,
       <<"{}", JObj(NoProps)>>,
       <<"{\"title\":\"Draft One\"}", JObj([title |-> JStr("Draft One")])>>,
       <<"{\"id\":1,\"title\":\"Draft One\"}",
         JObj([id |-> JNum(1), title |-> JStr("Draft One")])>>,
       <<"{\"error\":\"title is required\"}",
         JObj([error |-> JStr("title is required")])>>,
       <<"{\"error\":\"\"}", JObj([error |-> JStr("")])>>,
       <<"{\"message\":\"Not found\"}", JObj([message |-> JStr("Not found")])>>,
       <<"{\"message\":\"\"}", JObj([message |-> JStr("")])>>,
       <<"{\"error\":\"title is required\",\"message\":\"Not found\"}",
         JObj([error |-> JStr("title is required"),
               message |-> JStr("Not found")])>>,
       <<"{\"error\":\"\",\"message\":\"Not found\"}",
         JObj([error |-> JStr(""), message |-> JStr("Not found")])>> >>

IsJson(text) == \E i \in DOMAIN JsonTable : JsonTable[i][1] = text

\* JSON.parse of a text that is JSON
JsonParse(text) ==
    JsonTable[CHOOSE i \in DOMAIN JsonTable : JsonTable[i][1] = text][2]

\* JSON.stringify of a value of the table
JsonStringify(v) ==
    JsonTable[CHOOSE i \in DOMAIN JsonTable : JsonTable[i][2] = v][1]

(***************************************************************************)
(* api(url, method = 'GET', body = null)                                   *)
(*                                                                         *)
(* An invocation runs in four steps, each one turn of the event loop: the  *)
(* synchronous part up to `await fetch(url, opts)`; the settling of fetch; *)
(* and the settling of res.json().  The server and the transport are the   *)
(* environment: they choose the response.  fetch is modelled as able to    *)
(* fail or to respond after any request.                                   *)
(***************************************************************************)
Calls == 1..NCalls
PageCalls == 1..NPageCalls

Url == "/api/projects"

\* the `method` arguments callers pass (undefined: the argument is omitted)
Methods == {JUndef, JStr("POST")}

\* the `body` arguments callers pass
Bodies ==
    {JUndef, JNull, JNum(0), JNum(7), JBool(FALSE), JStr(""),
     JObj([title |-> JStr("Draft One")])}

\* status lines the server and transport produce (HTTP/2 has no status text)
StatusLines ==
    {[status |-> 201, statusText |-> "Created"],
     [status |-> 400, statusText |-> "Bad Request"],
     [status |-> 500, statusText |-> ""]}

\* response bodies the server produces
ResponseBodies ==
    {"", "<h1>Bad Gateway</h1>", "null", "{}",
     "{\"id\":1,\"title\":\"Draft One\"}",
     "{\"error\":\"title is required\"}",
     "{\"error\":\"\"}",
     "{\"message\":\"Not found\"}",
     "{\"message\":\"\"}",
     "{\"error\":\"title is required\",\"message\":\"Not found\"}",
     "{\"error\":\"\",\"message\":\"Not found\"}"}

NoArgs == [given |-> FALSE]
NoRequest == [sent |-> FALSE]
NoResponse == [received |-> FALSE]
Pending == [state |-> "pending"]
Resolved(v) == [state |-> "resolved", value |-> v]
Rejected(name, message) ==
    [state |-> "rejected", name |-> name, message |-> message]

IdleCall ==
    [pc |-> "idle", args |-> NoArgs, request |-> NoRequest, fetches |-> 0,
     res |-> NoResponse, outcome |-> Pending]

\* res.ok: the status is in the range 200-299
ResOk(res) == res.status >= 200 /\ res.status <= 299

\* lines 3-7: the options api() hands to fetch
Opts(method, body) ==
    IF Truthy(body)
    THEN [method |-> JsToString(method),
          headers |-> [ContentType |-> "application/json"],
          body |-> JsonStringify(body)]
    ELSE [method |-> JsToString(method),
          headers |-> [ContentType |-> "application/json"]]

\* fetch(url, opts): the request as issued
FetchRequest(url, opts) == [sent |-> TRUE, url |-> url, opts |-> opts]

\* the message of the SyntaxError res.json() rejects with on a text that is
\* not JSON
JsonSyntaxError(text) ==
    IF text = "" THEN "Unexpected end of JSON input"
    ELSE "Unexpected token '<'"

\* a variant of ErrorBody: .catch(() => ({}))
ErrorBodyEmptyObject(res) ==
    IF IsJson(res.bodyText) THEN JsonParse(res.bodyText)
    ELSE JObj(NoProps)

\* line 10: res.json().catch(() => ({ error: res.statusText }))
ErrorBody(res) ==
    IF IsJson(res.bodyText) THEN JsonParse(res.bodyText)
    ELSE JObj([error |-> JStr(res.statusText)])

\* a variant of ErrorMessage: err.message || err.error || 'Request failed'
ErrorMessageMessageFirst(err) ==
    JsToString(Or(Or(GetProp(err, "message"), GetProp(err, "error")),
                  JStr("Request failed")))

\* a variant of ErrorMessage: err.error || 'Request failed'
ErrorMessageErrorOnly(err) ==
    JsToString(Or(GetProp(err, "error"), JStr("Request failed")))

\* line 11: err.error || err.message || 'Request failed'
ErrorMessage(err) ==
    JsToString(Or(Or(GetProp(err, "error"), GetProp(err, "message")),
                  JStr("Request failed")))

\* a variant of ApiThrow: `return err` in place of the throw
ApiThrowReturnsError(res) == Resolved(ErrorBody(res))

\* lines 10-11: how api() settles once the body of a failure response is read
ApiThrow(res) ==
    LET err == ErrorBody(res) IN
    IF PropThrows(err)
    THEN Rejected("TypeError", "Cannot read properties of null")
    ELSE Rejected("Error", ErrorMessage(err))

\* a variant of ApiReturn: return (await res.json()).data
ApiReturnData(res) ==
    IF IsJson(res.bodyText)
    THEN IF PropThrows(JsonParse(res.bodyText))
         THEN Rejected("TypeError", "Cannot read properties of null")
         ELSE Resolved(GetProp(JsonParse(res.bodyText), "data"))
    ELSE Rejected("SyntaxError", JsonSyntaxError(res.bodyText))

\* line 13: how api() settles once the body of a success response is read
ApiReturn(res) ==
    IF IsJson(res.bodyText) THEN Resolved(JsonParse(res.bodyText))
    ELSE Rejected("SyntaxError", JsonSyntaxError(res.bodyText))

\* line 8, fetch rejects: how api() settles
ApiFetchFailed == Rejected("TypeError", "Failed to fetch")

\* lines 2-8, as the effect on the call slot
apiCall(c, method, body) ==
    /\ calls[c].pc = "idle"
    /\ calls' = [calls EXCEPT ![c] =
          [@ EXCEPT !.pc = "fetching",
                    !.args = [given |-> TRUE, method |-> method, body |-> body],
                    !.request = FetchRequest(Url,
                                    Opts(Default(method, JStr("GET")),
                                         Default(body, JNull))),
                    !.fetches = @ + 1]]

\* lines 2-8: the call, up to the request being issued
ApiCall(c, method, body) ==
    /\ apiCall(c, method, body)
    /\ UNCHANGED <<modalVars, modalHist, loadingVars, toastVars, themeVars, otherVars>>

\* a variant of FetchRejects: the request is issued again
FetchRejectsRetries(c) ==
    /\ calls[c].pc = "fetching"
    /\ calls' = [calls EXCEPT ![c] = [@ EXCEPT !.fetches = @ + 1]]
    /\ UNCHANGED <<modalVars, modalHist, loadingVars, toastVars, themeVars, otherVars>>

\* line 8: no response is received; the awaited promise rejects and so does
\* the call
FetchRejects(c) ==
    /\ calls[c].pc = "fetching"
    /\ calls' = [calls EXCEPT ![c] =
          [@ EXCEPT !.pc = "settled", !.args = NoArgs, !.request = NoRequest,
                    !.outcome = ApiFetchFailed]]
    /\ UNCHANGED <<modalVars, modalHist, loadingVars, toastVars, themeVars, otherVars>>

\* lines 8-10 and 13: a response is received; api() tests res.ok and starts
\* reading the body
FetchResolves(c, line, text) ==
    /\ calls[c].pc = "fetching"
    /\ LET res == [received |-> TRUE, status |-> line.status,
                   statusText |-> line.statusText, bodyText |-> text]
       IN calls' = [calls EXCEPT ![c] =
             [@ EXCEPT !.pc = IF ~ResOk(res) THEN "readingError" ELSE "reading",
                       !.args = NoArgs, !.request = NoRequest, !.res = res]]
    /\ UNCHANGED <<modalVars, modalHist, loadingVars, toastVars, themeVars, otherVars>>

\* lines 10-11: the body of a failure response has been read
ErrorBodyRead(c) ==
    /\ calls[c].pc = "readingError"
    /\ calls' = [calls EXCEPT ![c] =
          [@ EXCEPT !.pc = "settled", !.outcome = ApiThrow(calls[c].res)]]
    /\ UNCHANGED <<modalVars, modalHist, loadingVars, toastVars, themeVars, otherVars>>

\* a variant of BodyRead: the call hides the loading overlay when it is done
BodyReadHidesLoading(c) ==
    /\ calls[c].pc = "reading"
    /\ calls' = [calls EXCEPT ![c] =
          [@ EXCEPT !.pc = "settled", !.outcome = ApiReturn(calls[c].res)]]
    /\ loadingHidden' = TRUE
    /\ UNCHANGED <<loadingMessage, lastLoading, modalVars, modalHist,
                   toastVars, themeVars, otherVars>>

\* line 13: the body of a success response has been read
BodyRead(c) ==
    /\ calls[c].pc = "reading"
    /\ calls' = [calls EXCEPT ![c] =
          [@ EXCEPT !.pc = "settled", !.outcome = ApiReturn(calls[c].res)]]
    /\ UNCHANGED <<modalVars, modalHist, loadingVars, toastVars, themeVars, otherVars>>

\* one step of the invocation in slot c
ApiStep(c) ==
    \/ \E m \in Methods, b \in Bodies : ApiCall(c, m, b)
    \/ FetchRejects(c)
    \/ \E line \in StatusLines, text \in ResponseBodies :
          FetchResolves(c, line, text)
    \/ ErrorBodyRead(c)
    \/ BodyRead(c)

(***************************************************************************)
(* Modal.  The page holds one dialog, #modal-overlay; the markup of its    *)
(* body and footer is kept as the string assigned to innerHTML.            *)
(***************************************************************************)
\* element.textContent = v and element.innerHTML = v: the string assigned
SetText(v) == IF v.t = "null" THEN "" ELSE JsToString(v)

NoModalOp == [op |-> "none"]

\* history of events: none yet, a call of openModal or closeModal by the
\* page, a click or a key press (with whether the dialog was hidden then)
NoEvent == [kind |-> "none"]
CallEvent == [kind |-> "call"]
ClickEvent(targetId) ==
    [kind |-> "click", target |-> targetId, wasHidden |-> modalHidden]
KeydownEvent(key) ==
    [kind |-> "keydown", key |-> key, wasHidden |-> modalHidden]

\* a variant of OpenModal: if (footerHtml) footer.innerHTML = footerHtml
OpenModalKeepsFooter(title, bodyHtml, footerHtml) ==
    /\ modalTitle' = SetText(title)
    /\ modalBody' = SetText(bodyHtml)
    /\ modalFooter' =
          IF Truthy(footerHtml) THEN SetText(footerHtml) ELSE modalFooter
    /\ modalHidden' = FALSE
    /\ lastModal' = [op |-> "openModal", title |-> title, body |-> bodyHtml,
                     footer |-> footerHtml]
    /\ prevModal' = lastModal
    /\ lastEvent' = CallEvent
    /\ UNCHANGED <<apiVars, loadingVars, toastVars, themeVars, otherVars>>

\* lines 17-22
OpenModal(title, bodyHtml, footerHtml) ==
    /\ modalTitle' = SetText(title)
    /\ modalBody' = SetText(bodyHtml)
    /\ modalFooter' = SetText(Or(footerHtml, JStr("")))
    /\ modalHidden' = FALSE
    /\ lastModal' = [op |-> "openModal", title |-> title, body |-> bodyHtml,
                     footer |-> footerHtml]
    /\ prevModal' = lastModal
    /\ lastEvent' = CallEvent
    /\ UNCHANGED <<apiVars, loadingVars, toastVars, themeVars, otherVars>>

\* a variant of closeModal: classList.toggle('hidden')
closeModalToggles ==
    /\ modalHidden' = ~modalHidden
    /\ UNCHANGED <<modalTitle, modalBody, modalFooter>>
    /\ lastModal' = [op |-> "closeModal"]
    /\ prevModal' = lastModal

\* lines 24-26, as the effect on the dialog and on the history
closeModal ==
    /\ modalHidden' = TRUE
    /\ UNCHANGED <<modalTitle, modalBody, modalFooter>>
    /\ lastModal' = [op |-> "closeModal"]
    /\ prevModal' = lastModal

\* lines 24-26: a call of closeModal() by the page
CloseModal ==
    /\ closeModal
    /\ lastEvent' = CallEvent
    /\ UNCHANGED <<apiVars, loadingVars, toastVars, themeVars, otherVars>>

\* lines 29-31: the document's click listener
DocumentClick(targetId) ==
    /\ IF targetId = "modal-overlay" THEN closeModal
       ELSE UNCHANGED <<modalVars, lastModal, prevModal>>
    /\ lastEvent' = ClickEvent(targetId)
    /\ UNCHANGED <<apiVars, loadingVars, toastVars, themeVars, otherVars>>

\* a variant of DocumentKeydown: if (e.key === 'Esc') closeModal()
DocumentKeydownEsc(key) ==
    /\ IF key = "Esc" THEN closeModal
       ELSE UNCHANGED <<modalVars, lastModal, prevModal>>
    /\ lastEvent' = KeydownEvent(key)
    /\ UNCHANGED <<apiVars, loadingVars, toastVars, themeVars, otherVars>>

\* lines 34-36: the document's keydown listener
DocumentKeydown(key) ==
    /\ IF key = "Escape" THEN closeModal
       ELSE UNCHANGED <<modalVars, lastModal, prevModal>>
    /\ lastEvent' = KeydownEvent(key)
    /\ UNCHANGED <<apiVars, loadingVars, toastVars, themeVars, otherVars>>

(***************************************************************************)
(* Toasts.  Every timer has the same delay, so timers fire in the order    *)
(* they were set.                                                          *)
(***************************************************************************)
ToastDuration == 4000

\* lines 39-46
ShowToast(message, type, max) ==
    /\ nextToast < max
    /\ LET id == nextToast + 1
           toast == [id |-> id,
                     className |-> "toast " \o JsToString(Default(type, JStr("success"))),
                     textContent |-> SetText(message)]
       IN /\ toasts' = Append(toasts, toast)
          /\ timers' = Append(timers, [toast |-> id, delay |-> ToastDuration])
          /\ nextToast' = id
    /\ UNCHANGED <<apiVars, modalVars, modalHist, loadingVars, themeVars, otherVars>>

\* a variant of ToastTimeout: the callback empties the container
ToastTimeoutRemovesAll ==
    /\ timers # << >>
    /\ toasts' = << >>
    /\ timers' = Tail(timers)
    /\ UNCHANGED <<nextToast, apiVars, modalVars, modalHist, loadingVars,
                   themeVars, otherVars>>

\* line 45: the callback () => toast.remove() of the timer that is due
ToastTimeout ==
    /\ timers # << >>
    /\ toasts' = SelectSeq(toasts, LAMBDA x : x.id # Head(timers).toast)
    /\ timers' = Tail(timers)
    /\ UNCHANGED <<nextToast, apiVars, modalVars, modalHist, loadingVars,
                   themeVars, otherVars>>

(***************************************************************************)
(* Loading overlay.                                                        *)
(***************************************************************************)
NoLoadingOp == [op |-> "none"]

\* a variant of showLoading: a visible overlay keeps the message it shows
showLoadingKeepsMessage(message) ==
    /\ loadingMessage' = IF loadingHidden
                            THEN SetText(Default(message, JStr("Processing...")))
                            ELSE loadingMessage
    /\ loadingHidden' = FALSE
    /\ lastLoading' = [op |-> "showLoading", message |-> message]

\* lines 49-52, as the effect on the overlay and on the history
showLoading(message) ==
    /\ loadingMessage' = SetText(Default(message, JStr("Processing...")))
    /\ loadingHidden' = FALSE
    /\ lastLoading' = [op |-> "showLoading", message |-> message]

\* lines 54-56, as the effect on the overlay and on the history
hideLoading ==
    /\ loadingHidden' = TRUE
    /\ UNCHANGED loadingMessage
    /\ lastLoading' = [op |-> "hideLoading"]

\* lines 49-52: a call of showLoading(message) by the page
ShowLoading(message) ==
    /\ showLoading(message)
    /\ UNCHANGED <<apiVars, modalVars, modalHist, toastVars, themeVars, otherVars>>

\* lines 54-56: a call of hideLoading() by the page
HideLoading ==
    /\ hideLoading
    /\ UNCHANGED <<apiVars, modalVars, modalHist, toastVars, themeVars, otherVars>>

(***************************************************************************)
(* Theme.  localStorage.getItem returns null for a missing item.           *)
(***************************************************************************)
NoThemeOp == [op |-> "none"]

\* lines 59-61: the DOMContentLoaded listener applies the saved theme
DOMContentLoaded ==
    /\ ~domReady
    /\ domReady' = TRUE
    /\ dataTheme' = Or(storedTheme, JStr("dark"))
    /\ lastTheme' = [op |-> "startup", stored |-> storedTheme,
                      reloaded |-> lastTheme.op = "reload"]
    /\ UNCHANGED <<storedTheme, apiVars, modalVars, modalHist, loadingVars,
                   toastVars, otherVars>>

\* a variant of ToggleTheme: the new theme is not written to localStorage
ToggleThemeNotPersisted ==
    /\ domReady
    /\ LET next == IF dataTheme = JStr("dark") THEN JStr("light") ELSE JStr("dark")
       IN /\ dataTheme' = next
          /\ lastTheme' = [op |-> "toggle", from |-> dataTheme]
    /\ UNCHANGED <<domReady, storedTheme, apiVars, modalVars, modalHist,
                   loadingVars, toastVars, otherVars>>

\* lines 65-70: the click listener of #theme-toggle
ToggleTheme ==
    /\ domReady
    /\ LET next == IF dataTheme = JStr("dark") THEN JStr("light") ELSE JStr("dark")
       IN /\ dataTheme' = next
          /\ storedTheme' = next
          /\ lastTheme' = [op |-> "toggle", from |-> dataTheme]
    /\ UNCHANGED <<domReady, apiVars, modalVars, modalHist, loadingVars,
                   toastVars, otherVars>>

\* a page reload: the document and the script state start afresh (the state
\* the listeners of lines 59-72 start from); localStorage survives
Reload ==
    /\ domReady
    /\ calls' = [c \in Calls |-> IdleCall]
    /\ callers' = [c \in Calls |-> "idle"]
    /\ modalHidden' = TRUE
    /\ modalTitle' = ""
    /\ modalBody' = ""
    /\ modalFooter' = ""
    /\ lastModal' = NoModalOp
    /\ prevModal' = NoModalOp
    /\ lastEvent' = NoEvent
    /\ loadingHidden' = TRUE
    /\ loadingMessage' = "Processing..."
    /\ lastLoading' = NoLoadingOp
    /\ toasts' = << >>
    /\ timers' = << >>
    /\ nextToast' = 0
    /\ domReady' = FALSE
    /\ dataTheme' = JNull
    /\ lastTheme' = [op |-> "reload", stored |-> storedTheme]
    /\ UNCHANGED <<storedTheme, carousel>>

(***************************************************************************)
(* The hero carousel of src/site/js/main.js, lines 46-117.  The page has   *)
(* NSlides slides and as many indicators; classList `active` is kept as    *)
(* the set of indexes that carry it.  setInterval returns a fresh handle   *)
(* at every call; `live` holds the handles of the interval timers that     *)
(* have not been cleared.                                                  *)
(***************************************************************************)
NSlides == 3
MaxHandles == 4
SwipeThreshold == 50

Slides == 0..(NSlides - 1)
TouchXs == {0, 50, 110}

\* the % operator of JavaScript: the result takes the sign of the dividend
JsMod(a, b) == IF a >= 0 THEN a % b ELSE -((-a) % b)

NoMove == [op |-> "none"]

\* the state once the DOMContentLoaded listener has run: slide 0 shown and
\* the first interval timer started (line 116)
InitCarousel ==
    [currentSlide |-> 0,
     slideActive |-> {0},
     indicatorActive |-> {0},
     autoPlayInterval |-> 1,
     live |-> {1},
     handles |-> 1,
     hovering |-> FALSE,
     touching |-> FALSE,
     touchStartX |-> 0,
     touchEndX |-> 0,
     lastMove |-> NoMove]

\* a variant of goToSlide: currentSlide = index % slides.length
goToSlideNoOffset(c, index) ==
    LET next == JsMod(index, NSlides)
    IN [c EXCEPT !.slideActive = (@ \ {c.currentSlide}) \cup {next},
                 !.indicatorActive = (@ \ {c.currentSlide}) \cup {next},
                 !.currentSlide = next,
                 !.lastMove = [op |-> "goToSlide", index |-> index]]

\* lines 55-61
goToSlide(c, index) ==
    LET next == JsMod(index + NSlides, NSlides)
    IN [c EXCEPT !.slideActive = (@ \ {c.currentSlide}) \cup {next},
                 !.indicatorActive = (@ \ {c.currentSlide}) \cup {next},
                 !.currentSlide = next,
                 !.lastMove = [op |-> "goToSlide", index |-> index]]

\* lines 63-65
nextSlide(c) ==
    [goToSlide(c, c.currentSlide + 1) EXCEPT
        !.lastMove = [op |-> "nextSlide", from |-> c.currentSlide]]

\* lines 67-69
prevSlide(c) ==
    [goToSlide(c, c.currentSlide - 1) EXCEPT
        !.lastMove = [op |-> "prevSlide", from |-> c.currentSlide]]

\* lines 71-73: setInterval returns a fresh handle, which replaces the one
\* held in autoPlayInterval; the timer of the replaced handle is not cleared
startAutoPlay(c) ==
    [c EXCEPT !.handles = @ + 1,
              !.autoPlayInterval = c.handles + 1,
              !.live = @ \cup {c.handles + 1}]

\* lines 75-77: clearInterval of a handle that is not live does nothing
stopAutoPlay(c) == [c EXCEPT !.live = @ \ {c.autoPlayInterval}]

\* the handlers that call startAutoPlay run while handles are left
CanStart == carousel.handles < MaxHandles

\* line 80
NextClick ==
    /\ CanStart
    /\ carousel' = startAutoPlay(nextSlide(stopAutoPlay(carousel)))
    /\ UNCHANGED <<appVars, callers>>

\* line 81
PrevClick ==
    /\ CanStart
    /\ carousel' = startAutoPlay(prevSlide(stopAutoPlay(carousel)))
    /\ UNCHANGED <<appVars, callers>>

\* lines 84-90
IndicatorClick(index) ==
    /\ CanStart
    /\ carousel' = startAutoPlay(goToSlide(stopAutoPlay(carousel), index))
    /\ UNCHANGED <<appVars, callers>>

\* line 93: the pointer enters the carousel
MouseEnter ==
    /\ ~carousel.hovering
    /\ carousel' = [stopAutoPlay(carousel) EXCEPT !.hovering = TRUE]
    /\ UNCHANGED <<appVars, callers>>

\* line 94: the pointer leaves the carousel
MouseLeave ==
    /\ carousel.hovering
    /\ CanStart
    /\ carousel' = [startAutoPlay(carousel) EXCEPT !.hovering = FALSE]
    /\ UNCHANGED <<appVars, callers>>

\* lines 100-103
TouchStart(x) ==
    /\ ~carousel.touching
    /\ carousel' = [stopAutoPlay([carousel EXCEPT !.touchStartX = x])
                      EXCEPT !.touching = TRUE]
    /\ UNCHANGED <<appVars, callers>>

\* lines 105-113
TouchEnd(x) ==
    /\ carousel.touching
    /\ CanStart
    /\ LET c == [carousel EXCEPT !.touchEndX = x]
           moved == IF c.touchStartX - c.touchEndX > SwipeThreshold
                      THEN nextSlide(c)
                    ELSE IF c.touchEndX - c.touchStartX > SwipeThreshold
                      THEN prevSlide(c)
                    ELSE c
       IN carousel' = [startAutoPlay(moved) EXCEPT !.touching = FALSE]
    /\ UNCHANGED <<appVars, callers>>

\* line 72: the callback of the live interval timer `handle` runs nextSlide
Tick(handle) ==
    /\ handle \in carousel.live
    /\ carousel' = nextSlide(carousel)
    /\ UNCHANGED <<appVars, callers>>

(***************************************************************************)
(* Inputs of the user-interface operations.                                *)
(***************************************************************************)
Titles == {JStr("Delete chapter"), JStr("Edit project")}
BodyHtmls == {JStr("<p>Are you sure?</p>"), JStr("<form></form>")}
\* undefined: openModal is called with two arguments
FooterHtmls == {JUndef, JStr(""), JStr("<button>OK</button>")}
ClickTargets == {"modal-overlay", "modal-body", "theme-toggle-icon"}
Keys == {"Escape", "Enter"}
ToastMessages == {JStr("Saved"), JStr("title is required")}
ToastTypes == {JUndef, JStr("error")}
LoadingMessages == {JUndef, JStr("Expanding chapter...")}
StoredThemes == {JNull, JStr("dark"), JStr("light")}

(***************************************************************************)
(* Initial states: the page as loaded, before DOMContentLoaded.            *)
(***************************************************************************)
InitCalls == calls = [c \in Calls |-> IdleCall]

InitUi ==
    /\ modalHidden = TRUE
    /\ modalTitle = ""
    /\ modalBody = ""
    /\ modalFooter = ""
    /\ lastModal = NoModalOp
    /\ prevModal = NoModalOp
    /\ lastEvent = NoEvent
    /\ loadingHidden = TRUE
    /\ loadingMessage = "Processing..."
    /\ lastLoading = NoLoadingOp
    /\ toasts = << >>
    /\ timers = << >>
    /\ nextToast = 0
    /\ domReady = FALSE
    /\ dataTheme = JNull
    /\ lastTheme = NoThemeOp

\* no page code has started around a call
InitCallers == callers = [c \in Calls |-> "idle"]

Init ==
    /\ InitCalls
    /\ InitCallers
    /\ InitUi
    /\ carousel = InitCarousel
    /\ storedTheme \in StoredThemes

(***************************************************************************)
(* SpecApi: the request helper alone, NCalls invocations overlapping in    *)
(* any order.                                                              *)
(***************************************************************************)
InitApi ==
    /\ InitCalls
    /\ InitCallers
    /\ InitUi
    /\ carousel = InitCarousel
    /\ storedTheme = JNull

NextApi == \E c \in Calls : ApiStep(c)

SpecApi == InitApi /\ [][NextApi]_vars

(***************************************************************************)
(* SpecUi: the calls of the user-interface helpers by the page.            *)
(***************************************************************************)
NextUi ==
    \/ \E t \in Titles, b \in BodyHtmls, f \in FooterHtmls : OpenModal(t, b, f)
    \/ CloseModal
    \/ \E m \in ToastMessages, ty \in ToastTypes :
          ShowToast(m, ty, MaxPageToasts)
    \/ ToastTimeout
    \/ \E m \in LoadingMessages : ShowLoading(m)
    \/ HideLoading
    \/ DOMContentLoaded
    \/ ToggleTheme
    \/ Reload

SpecUi == Init /\ [][NextUi]_vars

(***************************************************************************)
(* SpecModal: the modal with the document's click and keydown listeners,   *)
(* interleaved with the other helpers, each on one input.                  *)
(***************************************************************************)
NextModal ==
    \/ \E t \in Titles, b \in BodyHtmls, f \in FooterHtmls : OpenModal(t, b, f)
    \/ CloseModal
    \/ \E target \in ClickTargets : DocumentClick(target)
    \/ \E key \in Keys : DocumentKeydown(key)
    \/ ShowToast(JStr("Saved"), JUndef, MaxPageToasts)
    \/ ToastTimeout
    \/ ShowLoading(JUndef)
    \/ HideLoading
    \/ DOMContentLoaded
    \/ ToggleTheme

SpecModal == Init /\ [][NextModal]_vars

(***************************************************************************)
(* SpecToast: up to MaxToasts toasts and their timers, next to the loading *)
(* overlay.  A timer that has been set fires: the event loop runs the      *)
(* callback of a due timer, hence the weak fairness of ToastTimeout.       *)
(***************************************************************************)
NextToast ==
    \/ \E m \in ToastMessages, ty \in ToastTypes : ShowToast(m, ty, MaxToasts)
    \/ ToastTimeout
    \/ ShowLoading(JUndef)
    \/ HideLoading

SpecToast == Init /\ [][NextToast]_vars /\ WF_vars(ToastTimeout)

(***************************************************************************)
(* SpecCarousel: the hero carousel under any interleaving of pointer,      *)
(* touch and click events and timer ticks.                                 *)
(***************************************************************************)
NextCarousel ==
    \/ NextClick
    \/ PrevClick
    \/ \E index \in Slides : IndicatorClick(index)
    \/ MouseEnter
    \/ MouseLeave
    \/ \E x \in TouchXs : TouchStart(x)
    \/ \E x \in TouchXs : TouchEnd(x)
    \/ \E handle \in 1..MaxHandles : Tick(handle)

SpecCarousel == InitApi /\ [][NextCarousel]_vars

PageResponseBodies ==
    {"", "{}", "{\"id\":1,\"title\":\"Draft One\"}",
     "{\"error\":\"title is required\"}"}

(***************************************************************************)
(* SpecCallers: page code of the form                                      *)
(*     showLoading(m); try { await api(url) } finally { hideLoading() }    *)
(* run once per call slot; the requests overlap in any order.  The part up *)
(* to the await runs in one step of the event loop, the part after it in   *)
(* another, once the call has settled: a microtask, which runs before the  *)
(* event loop handles the next event.                                      *)
(***************************************************************************)
ContinuationDue ==
    \E c \in Calls : callers[c] = "waiting" /\ calls[c].pc = "settled"

CallerStart(c, message) ==
    /\ callers[c] = "idle"
    /\ showLoading(message)
    /\ apiCall(c, JUndef, JUndef)
    /\ callers' = [callers EXCEPT ![c] = "waiting"]
    /\ UNCHANGED <<modalVars, modalHist, toastVars, themeVars, carousel>>

CallerFinish(c) ==
    /\ callers[c] = "waiting"
    /\ calls[c].pc = "settled"
    /\ hideLoading
    /\ callers' = [callers EXCEPT ![c] = "done"]
    /\ UNCHANGED <<apiVars, modalVars, modalHist, toastVars, themeVars, carousel>>

CallerEvent(c) ==
    /\ ~ContinuationDue
    /\ \/ \E m \in LoadingMessages : CallerStart(c, m)
       \/ FetchRejects(c)
       \/ \E line \in StatusLines, text \in PageResponseBodies :
             FetchResolves(c, line, text)
       \/ ErrorBodyRead(c)
       \/ BodyRead(c)

NextCallers == \E c \in Calls : CallerEvent(c) \/ CallerFinish(c)

SpecCallers == InitApi /\ [][NextCallers]_vars

(***************************************************************************)
(* Spec: the page, with NPageCalls invocations of api() interleaved with   *)
(* the user-interface operations, each on one input; the page requests     *)
(* api('/api/projects').                                                   *)
(***************************************************************************)
PageApiStep(c) ==
    \/ ApiCall(c, JUndef, JUndef)
    \/ FetchRejects(c)
    \/ \E line \in StatusLines, text \in PageResponseBodies :
          FetchResolves(c, line, text)
    \/ ErrorBodyRead(c)
    \/ BodyRead(c)

Next ==
    \/ \E c \in PageCalls : PageApiStep(c)
    \/ OpenModal(JStr("Edit project"), JStr("<form></form>"), JUndef)
    \/ CloseModal
    \/ ShowToast(JStr("Saved"), JUndef, MaxPageToasts)
    \/ ToastTimeout
    \/ ShowLoading(JUndef)
    \/ HideLoading
    \/ DOMContentLoaded
    \/ ToggleTheme

Spec == Init /\ [][Next]_vars

(***************************************************************************)
(* Properties of api().                                                    *)
(***************************************************************************)
Settled(c) == calls[c].pc = "settled"
Responded(c) == calls[c].res.received
SuccessResponse(c) == Responded(c) /\ ResOk(calls[c].res)
FailureResponse(c) == Responded(c) /\ ~ResOk(calls[c].res)
JsonBody(c) == IsJson(calls[c].res.bodyText)
ParsedBody(c) == JsonParse(calls[c].res.bodyText)
RejectedWith(c, message) ==
    /\ calls[c].outcome.state = "rejected"
    /\ calls[c].outcome.message = message
HasString(v, name) ==
    v.t = "obj" /\ name \in DOMAIN v.f /\ v.f[name].t = "str"
HasProp(v, name) == v.t = "obj" /\ name \in DOMAIN v.f

\* C1, as stated: every call whose response has a success status resolves
\* with exactly the parsed JSON body of the response.
C1_SuccessResolves ==
    \A c \in Calls :
        Settled(c) /\ SuccessResponse(c) =>
            /\ JsonBody(c)
            /\ calls[c].outcome = Resolved(ParsedBody(c))

\* C1, amended: a settled call whose response has a success status and a
\* body that is JSON has resolved with exactly the parsed body; when the
\* body is not JSON the call has rejected.
C1_SuccessWithJsonResolves ==
    \A c \in Calls :
        Settled(c) /\ SuccessResponse(c) =>
            IF JsonBody(c)
            THEN calls[c].outcome = Resolved(ParsedBody(c))
            ELSE calls[c].outcome.state = "rejected"

C1_Witness ==
    \E c \in Calls :
        /\ Settled(c)
        /\ SuccessResponse(c)
        /\ calls[c].res.status = 201
        /\ calls[c].outcome =
              Resolved(JObj([id |-> JNum(1), title |-> JStr("Draft One")]))

\* C2, as stated: a failure response whose JSON body has a string `error`
\* field X rejects with message X, for every string X.
C2_ErrorFieldIsMessage ==
    \A c \in Calls :
        Settled(c) /\ FailureResponse(c) /\ JsonBody(c)
          /\ HasString(ParsedBody(c), "error") =>
            RejectedWith(c, ParsedBody(c).f.error.s)

\* C2, amended: a failure response whose JSON body has a non-empty string
\* `error` field X rejects with message X, whether or not a `message` field
\* is present.
C2_NonEmptyErrorFieldIsMessage ==
    \A c \in Calls :
        Settled(c) /\ FailureResponse(c) /\ JsonBody(c)
          /\ HasString(ParsedBody(c), "error")
          /\ ParsedBody(c).f.error.s # "" =>
            RejectedWith(c, ParsedBody(c).f.error.s)

C2_Witness ==
    \E c \in Calls :
        /\ Settled(c)
        /\ FailureResponse(c)
        /\ JsonBody(c)
        /\ HasString(ParsedBody(c), "error")
        /\ HasString(ParsedBody(c), "message")
        /\ RejectedWith(c, "title is required")

\* C3, as stated: a failure response whose JSON body has a string `message`
\* field Y and no `error` field rejects with message Y, for every string Y.
C3_MessageFieldIsMessage ==
    \A c \in Calls :
        Settled(c) /\ FailureResponse(c) /\ JsonBody(c)
          /\ HasString(ParsedBody(c), "message")
          /\ ~HasProp(ParsedBody(c), "error") =>
            RejectedWith(c, ParsedBody(c).f.message.s)

\* C3, amended: a failure response whose JSON body has a non-empty string
\* `message` field Y and no `error` field rejects with message Y.
C3_NonEmptyMessageFieldIsMessage ==
    \A c \in Calls :
        Settled(c) /\ FailureResponse(c) /\ JsonBody(c)
          /\ HasString(ParsedBody(c), "message")
          /\ ParsedBody(c).f.message.s # ""
          /\ ~HasProp(ParsedBody(c), "error") =>
            RejectedWith(c, ParsedBody(c).f.message.s)

C3_Witness ==
    \E c \in Calls :
        /\ Settled(c)
        /\ FailureResponse(c)
        /\ calls[c].res.bodyText = "{\"message\":\"Not found\"}"
        /\ RejectedWith(c, "Not found")

\* C4, as stated: a failure response whose body is not JSON rejects with the
\* status text of the response, an empty status text included.
C4_StatusTextIsMessage ==
    \A c \in Calls :
        Settled(c) /\ FailureResponse(c) /\ ~JsonBody(c) =>
            RejectedWith(c, calls[c].res.statusText)

\* C4, amended: a failure response whose body is not JSON rejects with the
\* status text of the response when that text is not empty, and with
\* 'Request failed' when it is empty.
C4_NonEmptyStatusTextIsMessage ==
    \A c \in Calls :
        Settled(c) /\ FailureResponse(c) /\ ~JsonBody(c) =>
            IF calls[c].res.statusText # ""
            THEN RejectedWith(c, calls[c].res.statusText)
            ELSE RejectedWith(c, "Request failed")

C4_Witness ==
    \E c \in Calls :
        /\ Settled(c)
        /\ FailureResponse(c)
        /\ calls[c].res.bodyText = "<h1>Bad Gateway</h1>"
        /\ RejectedWith(c, "Bad Request")

\* the chain of C5: the body's `error`, then its `message`, then the status
\* text, then 'Request failed'
ChainMessage(res) ==
    LET body == IF IsJson(res.bodyText) THEN JsonParse(res.bodyText) ELSE JNull
        fromBody == Or(GetProp(body, "error"), GetProp(body, "message"))
    IN JsToString(Or(Or(fromBody, JStr(res.statusText)), JStr("Request failed")))

\* C5: the failure message is the message of the JSON error body (`error`,
\* then `message`), else the status text, else 'Request failed'; a failure
\* response whose JSON body has neither field rejects with a non-empty
\* status text.  Stated for every body but the JSON text null.
C5_MessageChain ==
    \A c \in Calls :
        Settled(c) /\ FailureResponse(c) /\ calls[c].res.bodyText # "null" =>
            RejectedWith(c, ChainMessage(calls[c].res))

\* the outcome of a call: rejected after a transport failure or a failure
\* status, resolved only on a success status, pending until it settles
C6_Outcome ==
    \A c \in Calls :
        IF Settled(c)
        THEN /\ calls[c].outcome.state \in {"resolved", "rejected"}
             /\ calls[c].outcome.state = "resolved" => SuccessResponse(c)
             /\ ~SuccessResponse(c) => calls[c].outcome.state = "rejected"
        ELSE calls[c].outcome = Pending

\* a settled call stays as it settled
C6_SettlesOnce == \A c \in Calls : Settled(c) => calls'[c] = calls[c]

\* C6: a call that ended in a transport failure or a failure status has
\* rejected and never resolves; a call has resolved only on a success
\* status; a settled call never settles again.
C6_NeverSwallows == []C6_Outcome /\ [][C6_SettlesOnce]_vars

C6_Witness ==
    \E c, d \in Calls :
        /\ Settled(c)
        /\ ~Responded(c)
        /\ calls[c].outcome.state = "rejected"
        /\ Settled(d)
        /\ FailureResponse(d)
        /\ calls[d].outcome.state = "rejected"

\* fetch has been invoked once by every call that has started
C7_OneFetch ==
    \A c \in Calls : calls[c].fetches = IF calls[c].pc = "idle" THEN 0 ELSE 1

\* the step of a call whose failure response is being read is its rejection,
\* with no further request
C7_RejectsNext ==
    \A c \in Calls :
        calls[c].pc = "readingError" /\ calls'[c] # calls[c] =>
            /\ calls'[c].pc = "settled"
            /\ calls'[c].outcome.state = "rejected"
            /\ calls'[c].fetches = calls[c].fetches

\* C7: a call issues exactly one request (one invocation of fetch) over its
\* lifetime, also after a transport failure or a failure status, and the
\* step after the body of a failure response is read is the rejection.
C7_NoRetry == []C7_OneFetch /\ [][C7_RejectsNext]_vars

C7_Witness ==
    \E c, d \in Calls :
        /\ Settled(c)
        /\ FailureResponse(c)
        /\ calls[c].outcome.state = "rejected"
        /\ calls[c].fetches = 1
        /\ Settled(d)
        /\ ~Responded(d)
        /\ calls[d].fetches = 1

\* C8: the request carries the JSON serialization of every body other than
\* null or an omitted one (0, false and '' included), no payload otherwise,
\* and a JSON content-type header always.
C8_RequestCarriesBody ==
    \A c \in Calls :
        calls[c].pc = "fetching" =>
            LET body == calls[c].args.body
                opts == calls[c].request.opts
            IN /\ opts.headers.ContentType = "application/json"
               /\ IF body.t \in {"undefined", "null"}
                  THEN "body" \notin DOMAIN opts
                  ELSE /\ "body" \in DOMAIN opts
                       /\ opts.body = JsonStringify(body)

\* C9: a step of api() leaves the loading overlay, the modal, the toasts
\* and the theme as they are.
C9_ApiStepKeepsUi == [][calls' # calls => UNCHANGED uiVars]_vars

C9_Witness ==
    \E c \in Calls :
        /\ Settled(c)
        /\ ~loadingHidden
        /\ ~modalHidden
        /\ toasts # << >>
        /\ dataTheme = JStr("light")

(***************************************************************************)
(* Properties of the modal.                                                *)
(***************************************************************************)
\* C10: after openModal(t, b, f) as the last modal operation the dialog is
\* visible and shows exactly t, b and f, with an empty footer when f is
\* omitted.
C10_LastOpenModalShows ==
    lastModal.op = "openModal" =>
        /\ ~modalHidden
        /\ modalTitle = lastModal.title.s
        /\ modalBody = lastModal.body.s
        /\ modalFooter =
              IF lastModal.footer = JUndef THEN "" ELSE lastModal.footer.s

C10_Witness ==
    /\ prevModal.op = "openModal"
    /\ prevModal.footer # JUndef
    /\ lastModal.op = "openModal"
    /\ lastModal.footer = JUndef
    /\ lastModal.title # prevModal.title
    /\ lastModal.body # prevModal.body
    /\ ~modalHidden
    /\ modalFooter = ""

\* the last event is one that calls closeModal(): a click on the backdrop
\* or an Escape key press
ClosingEvent(e) ==
    \/ e.kind = "click" /\ e.target = "modal-overlay"
    \/ e.kind = "keydown" /\ e.key = "Escape"

\* C11: the modal is closed initially; after closeModal(), a backdrop click
\* or an Escape key press it is closed; after a click on another target or
\* another key it is as it was before; and it is visible only when the last
\* modal operation is openModal.
C11_ModalStateMachine ==
    /\ lastEvent.kind = "none" => modalHidden
    /\ lastEvent.kind = "call" =>
          (modalHidden <=> lastModal.op = "closeModal")
    /\ lastEvent.kind \in {"click", "keydown"} =>
          IF ClosingEvent(lastEvent) THEN modalHidden
          ELSE modalHidden = lastEvent.wasHidden
    /\ ~modalHidden => lastModal.op = "openModal"

C11_Witness ==
    /\ lastEvent = [kind |-> "keydown", key |-> "Escape", wasHidden |-> FALSE]
    /\ prevModal.op = "openModal"
    /\ lastModal.op = "closeModal"
    /\ modalHidden

\* C12: a backdrop click or an Escape key press while no dialog is open
\* leaves the modal closed and the modal content, the loading overlay, the
\* toasts and the theme as they are.
C12_ClosedEventIsNoOp ==
    [][(/\ <<lastModal, prevModal, lastEvent>>' # <<lastModal, prevModal, lastEvent>>
        /\ ClosingEvent(lastEvent')
        /\ lastEvent'.wasHidden)
       => modalHidden' /\ UNCHANGED uiVars]_vars

C12_Witness ==
    /\ lastEvent = [kind |-> "click", target |-> "modal-overlay", wasHidden |-> TRUE]
    /\ lastModal.op = "closeModal"
    /\ prevModal.op = "closeModal"
    /\ modalHidden
    /\ modalTitle # ""
    /\ ~loadingHidden
    /\ toasts # << >>
    /\ dataTheme = JStr("light")

\* the toasts in #toast-container and the toasts whose timer is pending
ToastIds == {toasts[i].id : i \in DOMAIN toasts}
TimerIds == {timers[i].toast : i \in DOMAIN timers}
ToastPresent(id) == id \in ToastIds

\* a toast is in the container exactly while its own timer is pending
C13_PresentUntilTimer == ToastIds = TimerIds /\ Len(toasts) = Len(timers)

\* the timer that fires removes its own toast and no other; a toast that
\* has been removed does not come back
C13_TimerRemovesOwn ==
    /\ (timers # << >> /\ timers' = Tail(timers)) =>
          /\ ToastIds' = ToastIds \ {Head(timers).toast}
          /\ Head(timers).toast \in ToastIds
    /\ \A id \in 1..nextToast : ~ToastPresent(id) => ~ToastPresent(id)'

\* C13: every toast is present from showToast until its own timer fires and
\* absent ever after; it is eventually removed; the firing of a timer
\* removes that timer's toast only.
C13_ToastLifetime ==
    /\ []C13_PresentUntilTimer
    /\ [][C13_TimerRemovesOwn]_vars
    /\ \A id \in 1..MaxToasts : ToastPresent(id) ~> ~ToastPresent(id)

\* the first of two toasts has been removed, the later one is still shown
C13_Witness ==
    /\ nextToast = 2
    /\ ToastIds = {2}
    /\ TimerIds = {2}

\* C14: the one loading overlay is visible exactly when the most recent of
\* the showLoading / hideLoading calls is showLoading, and then it shows
\* that call's message, "Processing..." when the call passed none.
C14_LoadingFollowsLastCall ==
    /\ lastLoading.op = "showLoading" =>
          /\ ~loadingHidden
          /\ loadingMessage = IF lastLoading.message = JUndef
                                 THEN "Processing..."
                                 ELSE lastLoading.message.s
    /\ lastLoading.op \in {"hideLoading", "none"} => loadingHidden

C14_Witness ==
    /\ lastLoading = [op |-> "showLoading", message |-> JUndef]
    /\ ~loadingHidden
    /\ loadingMessage = "Processing..."

Themes == {JStr("dark"), JStr("light")}

\* C15: at startup the displayed theme is the stored value, or dark when
\* nothing is stored; a toggle click flips the displayed theme between dark
\* and light and stores the new value; a reload keeps the stored value; so
\* the displayed theme is dark or light and equals the stored value
\* whenever one is stored.
C15_ThemePreference ==
    /\ domReady =>
          /\ dataTheme \in Themes
          /\ storedTheme # JNull => dataTheme = storedTheme
    /\ storedTheme \in StoredThemes
    /\ lastTheme.op = "startup" =>
          /\ domReady
          /\ storedTheme = lastTheme.stored
          /\ dataTheme = IF lastTheme.stored = JNull THEN JStr("dark")
                          ELSE lastTheme.stored
    /\ lastTheme.op = "toggle" =>
          /\ domReady
          /\ dataTheme = IF lastTheme.from = JStr("dark") THEN JStr("light")
                          ELSE JStr("dark")
          /\ storedTheme = dataTheme
    /\ lastTheme.op = "reload" =>
          /\ ~domReady
          /\ storedTheme = lastTheme.stored

\* the page has been reloaded after a toggle to light, and shows light again
C15_Witness ==
    /\ lastTheme = [op |-> "startup", stored |-> JStr("light"), reloaded |-> TRUE]
    /\ dataTheme = JStr("light")
    /\ storedTheme = JStr("light")

\* C16: while the pointer is over the carousel or a touch is in progress no
\* autoplay timer is running, whatever clicks occur in between, and once
\* the interaction has ended autoplay is running again.
C16_PausedDuringInteraction ==
    IF carousel.hovering \/ carousel.touching
    THEN carousel.live = {}
    ELSE carousel.live # {}

\* C17: at most one autoplay interval timer is live, and it is the one whose
\* handle autoPlayInterval holds.
C17_OneLiveTimer ==
    /\ Cardinality(carousel.live) <= 1
    /\ carousel.live \subseteq {carousel.autoPlayInterval}

\* C18: currentSlide is a slide index, exactly the slide and the indicator
\* of that index carry `active`, nextSlide from the last slide wraps to 0
\* and prevSlide from slide 0 wraps to the last slide.
C18_OneActiveSlide ==
    /\ carousel.currentSlide \in Slides
    /\ carousel.slideActive = {carousel.currentSlide}
    /\ carousel.indicatorActive = {carousel.currentSlide}
    /\ carousel.lastMove.op = "nextSlide" =>
          carousel.currentSlide =
              IF carousel.lastMove.from = NSlides - 1 THEN 0
              ELSE carousel.lastMove.from + 1
    /\ carousel.lastMove.op = "prevSlide" =>
          carousel.currentSlide =
              IF carousel.lastMove.from = 0 THEN NSlides - 1
              ELSE carousel.lastMove.from - 1
    /\ carousel.lastMove.op = "goToSlide" =>
          carousel.currentSlide = carousel.lastMove.index

\* prevSlide has wrapped from slide 0 to the last slide
C18_Witness ==
    /\ carousel.lastMove = [op |-> "prevSlide", from |-> 0]
    /\ carousel.currentSlide = NSlides - 1
    /\ carousel.slideActive = {NSlides - 1}

\* the request of caller c has been issued and is not answered yet
InFlight(c) == callers[c] = "waiting" /\ calls[c].pc = "fetching"

\* C19: with overlapping callers of showLoading(m); await api(...);
\* hideLoading(), the overlay is visible while any caller's request is in
\* flight, and hidden once every caller has run its hideLoading.
C19_VisibleWhileInFlight ==
    /\ (\E c \in Calls : InFlight(c)) => ~loadingHidden
    /\ (\A c \in Calls : callers[c] = "done") => loadingHidden

====
